---------------------------- MODULE Spec2Model ----------------------------
(***************************************************************************)
(* A model of organiser.py: the Downloads organiser.                       *)
(*                                                                         *)
(* Strings.  A string is modelled by its split at '.', str.split('.'): a   *)
(* non-empty sequence of components.  A component is a record              *)
(* [b |-> base, ix |-> <<k1, .., kn>>] that stands for the text            *)
(* base-k1-...-kn; a base holds neither '.' nor a trailing -digits.  So    *)
(*   "archive.tar.gz"  is <<C("archive"), C("tar"), C("gz")>>              *)
(*   ".secret.pdf"     is <<E, C("secret"), C("pdf")>>                     *)
(*   "photo-1.jpg"     is <<[b |-> "photo", ix |-> <<1>>], C("jpg")>>      *)
(*   ""                is <<E>>                                            *)
(* and two strings are equal exactly when their models are equal.          *)
(***************************************************************************)
EXTENDS Integers, Sequences, FiniteSets, TLC

C(b) == [b |-> b, ix |-> <<>>]
E == C("")
EmptyStr == <<E>>

\* str.startswith(".")
StartsWithDot(s) == Len(s) >= 2 /\ s[1] = E

\* str.endswith(".")
EndsWithDot(s) == Len(s) >= 2 /\ s[Len(s)] = E

\* str.lower() on one component's letters (digits and '-' are unchanged)
LowerB(b) ==
    CASE b = "TAR" -> "tar"
      [] b = "GZ" -> "gz"
      [] b = "JPG" -> "jpg"
      [] b = "PDF" -> "pdf"
      [] b = "TMP" -> "tmp"
      [] b = "GZ " -> "gz "
      [] OTHER -> b

\* leading / trailing white space of one component's letters
LStripB(b) ==
    CASE b = " tar" -> "tar"
      [] b = " " -> ""
      [] OTHER -> b

RStripB(b) ==
    CASE b = "gz " -> "gz"
      [] b = "GZ " -> "GZ"
      [] b = " " -> ""
      [] OTHER -> b

Lower(s) == [i \in 1..Len(s) |-> [s[i] EXCEPT !.b = LowerB(@)]]

\* str.strip(): white space goes from the front of the first component and
\* from the back of the last one (a trailing -k is not white space)
Strip(s) ==
    LET n == Len(s)
        l == [s EXCEPT ![1] = [@ EXCEPT !.b = LStripB(@)]]
    IN  IF l[n].ix = <<>> THEN [l EXCEPT ![n] = [@ EXCEPT !.b = RStripB(@)]] ELSE l

\* len(str) of one component's letters
BaseLen(b) ==
    CASE b = "" -> 0
      [] b \in {"gz", "GZ", "7z", "py", "js", "ts", "sh", "go", "rs", "md"} -> 2
      [] b \in {"gz ", "GZ "} -> 3
      [] b \in {" tar"} -> 4
      [] b \in {"archive", "mystery"} -> 7
      [] b = "v2" -> 2
      [] b = "secret" -> 6
      [] b = "DS_Store" -> 8
      [] b \in {"photo", "Other"} -> 5
      [] b = "report" -> 6
      [] b \in {"jpeg", "webp", "tiff", "heic", "webm", "flac", "docx", "xlsx",
                "pptx", "json", "yaml", "toml", "html", "woff", "part"} -> 4
      [] b \in {"pages", "woff2"} -> 5
      [] b \in {"download", "partial"} -> 8
      [] b = "crdownload" -> 10
      [] OTHER -> 3

RECURSIVE IxLen(_)
IxLen(ix) == IF ix = <<>> THEN 0 ELSE 2 + IxLen(Tail(ix))

\* len(str): one '.' between components
RECURSIVE StrLen(_)
StrLen(s) ==
    IF Len(s) = 0 THEN 0
    ELSE BaseLen(s[1].b) + IxLen(s[1].ix)
         + (IF Len(s) > 1 THEN 1 + StrLen(Tail(s)) ELSE 0)

(***************************************************************************)
(* pathlib.PurePath.name properties.                                       *)
(***************************************************************************)
\* name.lstrip('.'): the first component that is not empty, and what follows
RECURSIVE LStripDots(_)
LStripDots(s) ==
    IF Len(s) >= 2 /\ s[1] = E THEN LStripDots(Tail(s)) ELSE s

\* Path.suffixes, each suffix without its leading '.'
suffixes(name) ==
    IF EndsWithDot(name) THEN <<>> ELSE Tail(LStripDots(name))

\* 0 < name.rfind('.') < len(name) - 1
HasSuffix(name) ==
    /\ Len(name) >= 2
    /\ ~(Len(name) = 2 /\ name[1] = E)
    /\ name[Len(name)] # E

\* Path.suffix as a string ("" or ".ext")
suffix(name) == IF HasSuffix(name) THEN <<E, name[Len(name)]>> ELSE EmptyStr

\* Path.stem
stem(name) == IF HasSuffix(name) THEN SubSeq(name, 1, Len(name) - 1) ELSE name

\* "".join(ss) for a list ss of suffixes: "" or ".x.y"
JoinSuffixes(ss) == <<E>> \o ss

(***************************************************************************)
(* Extension Index and Classifier.                                         *)
(***************************************************************************)
_normalize_extension(ext) ==
    LET e == Lower(Strip(ext))
    IN  IF e = EmptyStr THEN EmptyStr
        ELSE IF ~StartsWithDot(e) THEN <<E>> \o e
        ELSE e

\* ext_map is a set of pairs <<normalized extension, folder>>, one per key
ExtKeys(ext_map) == {p[1] : p \in ext_map}
ExtGet(ext_map, k) == (CHOOSE p \in ext_map : p[1] = k)[2]

\* mappings: a sequence (dict order) of [folder, extensions].  The loops of
\* _build_extension_map write ext_map[key] once per place <<i, j>>, in
\* order, so a key keeps the folder of the last place that writes it.
Places(mappings) ==
    UNION {{<<i, j>> : j \in 1..Len(mappings[i].extensions)} : i \in 1..Len(mappings)}

KeyAt(mappings, p) == _normalize_extension(mappings[p[1]].extensions[p[2]])

Before(p, q) == p[1] < q[1] \/ (p[1] = q[1] /\ p[2] < q[2])

LastWriter(mappings) ==
    {p \in Places(mappings) :
        \A q \in Places(mappings) :
            Before(p, q) => KeyAt(mappings, q) # KeyAt(mappings, p)}

_build_extension_map(mappings) ==
    {<<KeyAt(mappings, p), mappings[p[1]].folder>> : p \in LastWriter(mappings)}

_extension_candidates(name) ==
    LET ss == Lower(suffixes(name))
    IN  IF ss = <<>> THEN <<EmptyStr>>
        ELSE [i \in 1..Len(ss) |-> JoinSuffixes(SubSeq(ss, i, Len(ss)))]

\* sorted(candidates, key=len, reverse=True): a stable insertion sort
RECURSIVE InsertDesc(_, _)
InsertDesc(sorted, c) ==
    IF sorted = <<>> THEN <<c>>
    ELSE IF StrLen(Head(sorted)) >= StrLen(c)
         THEN <<Head(sorted)>> \o InsertDesc(Tail(sorted), c)
         ELSE <<c>> \o sorted

RECURSIVE SortAsc(_)
RECURSIVE InsertAsc(_, _)
InsertAsc(sorted, c) ==
    IF sorted = <<>> THEN <<c>>
    ELSE IF StrLen(Head(sorted)) <= StrLen(c)
         THEN <<Head(sorted)>> \o InsertAsc(Tail(sorted), c)
         ELSE <<c>> \o sorted
SortAsc(cs) ==
    IF cs = <<>> THEN <<>>
    ELSE InsertAsc(SortAsc(SubSeq(cs, 1, Len(cs) - 1)), cs[Len(cs)])

RECURSIVE SortByLenDesc(_)
SortByLenDesc(cs) ==
    IF cs = <<>> THEN <<>>
    ELSE InsertDesc(SortByLenDesc(SubSeq(cs, 1, Len(cs) - 1)), cs[Len(cs)])

RECURSIVE FirstMatch(_, _, _)
FirstMatch(cs, ext_map, other_folder) ==
    IF cs = <<>>
    THEN IF EmptyStr \in ExtKeys(ext_map) THEN ExtGet(ext_map, EmptyStr)
         ELSE other_folder
    ELSE LET normalized == _normalize_extension(Head(cs))
         IN  IF normalized \in ExtKeys(ext_map) THEN ExtGet(ext_map, normalized)
             ELSE FirstMatch(Tail(cs), ext_map, other_folder)

_decide_folder(name, ext_map, other_folder) ==
    FirstMatch(SortByLenDesc(_extension_candidates(name)), ext_map, other_folder)


(***************************************************************************)
(* State.                                                                  *)
(*   files   the regular files: records [dir, name, id, mtime]; dir is the *)
(*           folder the file is in, Root for the watched directory itself  *)
(*   dirs    the sub-directories of the watched directory                  *)
(*   clock   time.time(), in whole seconds                                 *)
(*   config  the Config: the fields the engine reads                       *)
(*   main    the main thread: main(), scan_existing and the polling loop   *)
(*   tasks   the worker threads queue_organize started                     *)
(*   nextId  the identity the next file created gets                       *)
(*   moves   how often organize_file has moved each file                   *)
(*   lost    the files a move has overwritten                              *)
(*   call    the call under study when one function is run on its own      *)
(***************************************************************************)
VARIABLES files, dirs, clock, config, main, tasks, nextId, moves, lost, call

vars == <<files, dirs, clock, config, main, tasks, nextId, moves, lost, call>>

Root == "."
\* Python's None, where a path or a file name is expected
None == <<>>

\* config.downloads_dir / folder_name: pathlib drops "" and "." components
DestDir(folder_name) == IF folder_name \in {"", "."} THEN Root ELSE folder_name

\* the name under which a sub-directory shows in the watched directory
FolderAsName(d) == <<C(d)>>

IsFile(dir, name) == \E f \in files : f.dir = dir /\ f.name = name
FileAt(dir, name) == CHOOSE f \in files : f.dir = dir /\ f.name = name

\* Path.is_dir() of config.downloads_dir / folder_name
IsDir(d) == d = Root \/ d \in dirs

\* Path.exists()
Exists(dir, name) ==
    \/ IsFile(dir, name)
    \/ dir = Root /\ \E d \in dirs : FolderAsName(d) = name

\* dest_dir.exists(): a directory, or a file of that name in the watched directory
DestDirExists(d) == IsDir(d) \/ IsFile(Root, FolderAsName(d))

(***************************************************************************)
(* Destination Resolver.                                                   *)
(***************************************************************************)
\* f"{stem}-{index}{suffix}"
Numbered(st, index, ss) ==
    LET m == Len(st)
    IN  SubSeq(st, 1, m - 1) \o <<[st[m] EXCEPT !.ix = Append(@, index)]>> \o ss

RECURSIVE Probe(_, _, _, _)
Probe(dest_dir, st, ss, index) ==
    LET candidate == Numbered(st, index, ss)
    IN  IF ~Exists(dest_dir, candidate) THEN candidate
        ELSE Probe(dest_dir, st, ss, index + 1)

\* the result is the file name inside dest_dir
_resolve_destination(dest_dir, filename) ==
    IF ~Exists(dest_dir, filename) THEN filename
    ELSE Probe(dest_dir, stem(filename), suffixes(filename), 1)

(***************************************************************************)
(* One function run on its own: the inputs are drawn in Init, the actions  *)
(* apply the function.                                                     *)
(***************************************************************************)
NoCall == [op |-> "none"]
NoConfig == [dry_run |-> FALSE]
IdleMain == [pc |-> "none"]

Quiet ==
    /\ clock = 0 /\ config = NoConfig /\ main = IdleMain /\ tasks = <<>>
    /\ nextId = 0 /\ moves = <<>> /\ lost = {}

\* bounds of the classifier's inputs
MaxSuffixes == 2

SufBases == {"tar", "TAR", "gz", "GZ", "pdf", "gz "}
RECURSIVE SufSeqs(_)
SufSeqs(n) ==
    IF n = 0 THEN {<<>>}
    ELSE LET shorter == SufSeqs(n - 1)
         IN  shorter \cup {Append(s, C(b)) : s \in {x \in shorter : Len(x) = n - 1},
                                              b \in SufBases}

ClassifyNames ==
    {h \o ss : h \in {<<C("archive")>>, <<E, C("secret")>>}, ss \in SufSeqs(MaxSuffixes)}

\* extension lists as a configuration file may give them
ExtLists ==
    { <<>>,
      << <<C("tar"), C("gz")>> >>,
      << <<C("gz")>> >>,
      << <<C("TAR"), C("GZ ")>>, <<C("tar")>> >>,
      << <<E, C("gz")>>, EmptyStr >>,
      << <<C("pdf")>>, <<E, C("tar"), C("gz")>> >> }

MappingChoices ==
    { << [folder |-> "Archives", extensions |-> e1],
         [folder |-> "Compressed", extensions |-> e2] >> : e1, e2 \in ExtLists }

ClassifyInit ==
    /\ files = {} /\ dirs = {} /\ Quiet
    /\ \E n \in ClassifyNames, m \in MappingChoices :
          call = [op |-> "classify", pc |-> "build", name |-> n, mappings |-> m,
                  ext_map |-> {}, result |-> ""]

BuildExtensionMap ==
    /\ call.op = "classify" /\ call.pc = "build"
    /\ call' = [call EXCEPT !.pc = "decide",
                            !.ext_map = _build_extension_map(call.mappings)]
    /\ UNCHANGED <<files, dirs, clock, config, main, tasks, nextId, moves, lost>>

DecideFolder ==
    /\ call.op = "classify" /\ call.pc = "decide"
    /\ call' = [call EXCEPT !.pc = "done",
                            !.result = _decide_folder(call.name, call.ext_map, "Other")]
    /\ UNCHANGED <<files, dirs, clock, config, main, tasks, nextId, moves, lost>>

ClassifyNext == BuildExtensionMap \/ DecideFolder

SpecClassify == ClassifyInit /\ [][ClassifyNext]_vars

\* C2 is stated on its own terms: the suffix tails of the lower-cased name,
\* each a key or not of the index
Tails(name) ==
    LET ss == Lower(suffixes(name))
    IN  {JoinSuffixes(SubSeq(ss, i, Len(ss))) : i \in 1..Len(ss)}

MatchingTails(name, ext_map) == Tails(name) \cap ExtKeys(ext_map)

LongestMatch(name, ext_map) ==
    CHOOSE t \in MatchingTails(name, ext_map) :
        \A u \in MatchingTails(name, ext_map) : Len(u) <= Len(t)

\* C2: when a suffix tail of the (lower-cased) file name is a key of the
\* extension index, _decide_folder returns the category of the longest such
\* tail, whatever category the trailing extension alone is mapped to.
C2_CompoundWins ==
    (call.op = "classify" /\ call.pc = "done"
        /\ MatchingTails(call.name, call.ext_map) # {})
    => call.result = ExtGet(call.ext_map, LongestMatch(call.name, call.ext_map))

\* an upper-case compound name whose trailing extension alone is mapped to
\* another category than the compound one
C2_Witness ==
    /\ call.op = "classify" /\ call.pc = "done"
    /\ call.name = <<C("archive"), C("TAR"), C("GZ")>>
    /\ <<E, C("tar"), C("gz")>> \in ExtKeys(call.ext_map)
    /\ <<E, C("gz")>> \in ExtKeys(call.ext_map)
    /\ ExtGet(call.ext_map, <<E, C("gz")>>) = "Compressed"
    /\ call.result = "Archives"

(***************************************************************************)
(* _resolve_destination on its own: a destination folder with some names   *)
(* taken, and a desired file name.                                         *)
(***************************************************************************)
\* the largest index taken in the destination folder
ProbeCap == 2

ResolveNames ==
    { <<C("photo"), C("jpg")>>,
      <<C("archive"), C("tar"), C("gz")>>,
      <<C("report")>>,
      <<E, C("secret"), C("pdf")>>,
      <<[b |-> "photo", ix |-> <<1>>], C("jpg")>>,
      <<C("report"), C("v2"), C("PDF")>> }

\* the file name without its full extension, and name-k.ext built from it
BareStem(name) == SubSeq(name, 1, Len(name) - Len(suffixes(name)))
BareNumbered(name, k) == Numbered(BareStem(name), k, suffixes(name))

TakenChoices(name) ==
    SUBSET ({name}
            \cup {Numbered(stem(name), k, suffixes(name)) : k \in 1..ProbeCap}
            \cup {BareNumbered(name, k) : k \in 1..ProbeCap})

ResolveInit ==
    /\ dirs = {"Images"} /\ Quiet
    /\ \E n \in ResolveNames :
          /\ call = [op |-> "resolve", pc |-> "resolve", dest_dir |-> "Images",
                     filename |-> n, result |-> None]
          /\ \E taken \in TakenChoices(n) :
                files = {[dir |-> "Images", name |-> t, id |-> 0, mtime |-> 0] : t \in taken}

ResolveDestination ==
    /\ call.op = "resolve" /\ call.pc = "resolve"
    /\ call' = [call EXCEPT !.pc = "done",
                            !.result = _resolve_destination(call.dest_dir, call.filename)]
    /\ UNCHANGED <<files, dirs, clock, config, main, tasks, nextId, moves, lost>>

ResolveNext == ResolveDestination

SpecResolve == ResolveInit /\ [][ResolveNext]_vars

SmallestFree(dest_dir, name) ==
    CHOOSE k \in 1..(Cardinality(files) + 1) :
        /\ ~Exists(dest_dir, BareNumbered(name, k))
        /\ \A j \in 1..(k - 1) : Exists(dest_dir, BareNumbered(name, j))

\* C3: _resolve_destination returns the file name unchanged when it is free
\* in the destination folder, and otherwise stem-k.ext for the smallest
\* k >= 1 that is free, ext being the full (compound) extension and stem the
\* name without it.
C3_ResolverNaming ==
    (call.op = "resolve" /\ call.pc = "done")
    => call.result =
          IF ~Exists(call.dest_dir, call.filename) THEN call.filename
          ELSE BareNumbered(call.filename, SmallestFree(call.dest_dir, call.filename))

\* every name the resolver probes up to ProbeCap is taken
AllTaken(dest_dir, name) ==
    /\ Exists(dest_dir, name)
    /\ \A k \in 1..ProbeCap : Exists(dest_dir, Numbered(stem(name), k, suffixes(name)))

\* C8: when the name and every numbered name up to the bound are taken, the
\* resolver stops and yields no path (an error for this file).
C8_ExhaustionIsAnError ==
    (call.op = "resolve" /\ call.pc = "done" /\ AllTaken(call.dest_dir, call.filename))
    => call.result = None

(***************************************************************************)
(* The engine: Settling Filter, Mover, Scan Driver, Change Feed.           *)
(***************************************************************************)
DEFAULT_MAPPINGS ==
    << [folder |-> "Images",
        extensions |-> << <<C("jpg")>>, <<C("jpeg")>>, <<C("png")>>, <<C("gif")>>,
                          <<C("webp")>>, <<C("tiff")>>, <<C("svg")>>, <<C("heic")>> >>],
       [folder |-> "Videos",
        extensions |-> << <<C("mp4")>>, <<C("mov")>>, <<C("mkv")>>, <<C("avi")>>,
                          <<C("webm")>> >>],
       [folder |-> "Audio",
        extensions |-> << <<C("mp3")>>, <<C("wav")>>, <<C("m4a")>>, <<C("flac")>>,
                          <<C("aac")>>, <<C("ogg")>> >>],
       [folder |-> "Documents",
        extensions |-> << <<C("pdf")>>, <<C("doc")>>, <<C("docx")>>, <<C("txt")>>,
                          <<C("rtf")>>, <<C("odt")>>, <<C("pages")>>, <<C("md")>> >>],
       [folder |-> "Spreadsheets",
        extensions |-> << <<C("xls")>>, <<C("xlsx")>>, <<C("csv")>>, <<C("ods")>> >>],
       [folder |-> "Presentations",
        extensions |-> << <<C("ppt")>>, <<C("pptx")>>, <<C("key")>> >>],
       [folder |-> "Archives",
        extensions |-> << <<C("zip")>>, <<C("rar")>>, <<C("7z")>>, <<C("tar")>>,
                          <<C("gz")>>, <<C("bz2")>>, <<C("tar"), C("gz")>>,
                          <<C("tar"), C("bz2")>> >>],
       [folder |-> "Code",
        extensions |-> << <<C("py")>>, <<C("js")>>, <<C("ts")>>, <<C("json")>>,
                          <<C("yml")>>, <<C("yaml")>>, <<C("toml")>>, <<C("html")>>,
                          <<C("css")>>, <<C("sh")>>, <<C("go")>>, <<C("rs")>> >>],
       [folder |-> "Installers",
        extensions |-> << <<C("dmg")>>, <<C("pkg")>>, <<C("app")>>, <<C("exe")>>,
                          <<C("msi")>> >>],
       [folder |-> "Fonts",
        extensions |-> << <<C("ttf")>>, <<C("otf")>>, <<C("woff")>>, <<C("woff2")>> >>] >>

TRANSIENT_EXTENSIONS ==
    { <<E, C("download")>>, <<E, C("crdownload")>>, <<E, C("part")>>,
      <<E, C("partial")>>, <<E, C("tmp")>> }

SKIP_NAMES == { <<E, C("DS_Store")>> }

\* main(): ext_map = _build_extension_map(config.mappings)
ext_map == _build_extension_map(DEFAULT_MAPPINGS)

\* time.time() - path.stat().st_mtime
Age(name) == clock - FileAt(Root, name).mtime

\* _should_skip with "age <= config.min_age_seconds" as its last line
SkipAtMinAge(name) ==
    \/ name \in SKIP_NAMES
    \/ config.ignore_hidden /\ StartsWithDot(name)
    \/ Lower(suffix(name)) \in TRANSIENT_EXTENSIONS
    \/ ~IsFile(Root, name)
    \/ Age(name) <= config.min_age_seconds

\* _should_skip without its hidden-file rule
SkipIgnoringHidden(name) ==
    \/ name \in SKIP_NAMES
    \/ Lower(suffix(name)) \in TRANSIENT_EXTENSIONS
    \/ ~IsFile(Root, name)
    \/ Age(name) < config.min_age_seconds

_should_skip(name) ==
    \/ name \in SKIP_NAMES
    \/ config.ignore_hidden /\ StartsWithDot(name)
    \/ Lower(suffix(name)) \in TRANSIENT_EXTENSIONS
    \/ ~IsFile(Root, name)
    \/ Age(name) < config.min_age_seconds

(***************************************************************************)
(* organize_file, lines 130-144: everything up to the move.  The result    *)
(* says how the call goes on: "skipped", "self" and "dry" return, "raised" *)
(* leaves by the exception of mkdir, "move" goes on to shutil.move.        *)
(* mkdir_ok: whether the operating system lets the folder be created.      *)
(***************************************************************************)
organize_file(name, mkdir_ok) ==
    IF _should_skip(name)
    THEN [kind |-> "skipped", dirs |-> dirs, ret |-> None]
    ELSE LET folder_name == _decide_folder(name, ext_map, config.other_folder)
             dest_dir == DestDir(folder_name)
             destination == _resolve_destination(dest_dir, name)
         IN  IF ~DestDirExists(dest_dir) /\ ~mkdir_ok
             THEN [kind |-> "raised", dirs |-> dirs, ret |-> None]
             ELSE LET made == IF DestDirExists(dest_dir) THEN dirs
                              ELSE dirs \cup {dest_dir}
                  IN  IF dest_dir = Root /\ destination = name
                      THEN [kind |-> "self", dirs |-> made, ret |-> None]
                      ELSE IF config.dry_run
                      THEN [kind |-> "dry", dirs |-> made,
                            ret |-> <<dest_dir, destination>>]
                      ELSE [kind |-> "move", dirs |-> made,
                            ret |-> <<dest_dir, destination>>]

(***************************************************************************)
(* shutil.move(path, destination), lines 146-152.  It fails (OSError, which*)
(* organize_file catches) when the source is gone, when the destination    *)
(* folder is no directory, or when the operating system refuses; else the  *)
(* file is renamed onto the destination, replacing a file that is there.   *)
(***************************************************************************)
MoveFails(name, dest, move_ok) ==
    ~IsFile(Root, name) \/ ~IsDir(dest[1]) \/ ~move_ok

Moved(name, dest) ==
    LET src == FileAt(Root, name)
    IN  {f \in files : ~(f.dir = Root /\ f.name = name)
                       /\ ~(f.dir = dest[1] /\ f.name = dest[2])}
        \cup {[src EXCEPT !.dir = dest[1], !.name = dest[2]]}

Overwritten(name, dest) ==
    {f.id : f \in {g \in files : g.dir = dest[1] /\ g.name = dest[2]}}

(***************************************************************************)
(* The running program and its environment.                                *)
(***************************************************************************)
\* worker(): attempts = 3
attempts == 3

Report == <<C("report"), C("pdf")>>
Report1 == <<[b |-> "report", ix |-> <<1>>], C("pdf")>>
Secret == <<E, C("secret"), C("pdf")>>
DSStore == <<E, C("DS_Store")>>
Partial == <<C("report"), C("pdf"), C("part")>>
Mystery == <<C("mystery"), C("xyz")>>

FreeTask ==
    [pc |-> "free", name |-> None, attempt |-> 0, wake |-> 0, dest |-> None,
     invoked |-> FALSE, vanished |-> FALSE]

\* The state after main() has loaded the configuration and found the watched
\* directory: configs, feeds and pres are the choices of the configuration,
\* of the change feed and of what a previous run left in the category
\* folders; max_tasks and max_files bound the workers and the files.
InitOver(configs, feeds, pres, max_tasks, max_files) ==
    /\ \E pre \in pres :
          /\ files = pre
          /\ dirs = {f.dir : f \in pre}
          /\ nextId = Cardinality(pre)
    /\ clock = 0
    /\ config \in configs
    /\ \E feed \in feeds :
          main = [pc |-> "scan", feed |-> feed, todo |-> {}, name |-> None, dest |-> None]
    /\ tasks = [t \in 1..max_tasks |-> FreeTask]
    /\ moves = [i \in 0..(max_files - 1) |-> 0]
    /\ lost = {}
    /\ call = NoCall

\* the process is alive
Running == main.pc \notin {"none", "crashed"}

\* the Observer is started: _watch_with_watchdog after observer.start()
Watching == main.pc = "watching"

FreeSlots == {t \in DOMAIN tasks : tasks[t].pc = "free"}

\* queue_organize(path): threading.Thread(target=worker).start()
Spawned(ts, name) ==
    LET t == CHOOSE u \in FreeSlots : \A v \in FreeSlots : u <= v
    IN  [ts EXCEPT ![t] = [FreeTask EXCEPT !.pc = "check", !.name = name]]

(***************************************************************************)
(* Environment: another program creates a file in the watched directory    *)
(* (Handler.on_created sees it when the Observer runs), writes to one, or  *)
(* removes one; time passes.                                               *)
(***************************************************************************)
EnvCreate(n) ==
    /\ Running
    /\ nextId \in DOMAIN moves
    /\ ~Exists(Root, n)
    /\ Watching => FreeSlots # {}
    /\ files' = files \cup {[dir |-> Root, name |-> n, id |-> nextId, mtime |-> clock]}
    /\ nextId' = nextId + 1
    /\ tasks' = IF Watching THEN Spawned(tasks, n) ELSE tasks
    /\ UNCHANGED <<dirs, clock, config, main, moves, lost, call>>

EnvTouch(n) ==
    /\ Running
    /\ IsFile(Root, n)
    /\ FileAt(Root, n).mtime < clock
    /\ files' = (files \ {FileAt(Root, n)}) \cup {[FileAt(Root, n) EXCEPT !.mtime = clock]}
    /\ UNCHANGED <<dirs, clock, config, main, tasks, nextId, moves, lost, call>>

EnvDelete(n) ==
    /\ Running
    /\ IsFile(Root, n)
    /\ files' = files \ {FileAt(Root, n)}
    /\ UNCHANGED <<dirs, clock, config, main, tasks, nextId, moves, lost, call>>

Tick(max_clock) ==
    /\ Running
    /\ clock < max_clock
    /\ clock' = clock + 1
    /\ UNCHANGED <<files, dirs, config, main, tasks, nextId, moves, lost, call>>

(***************************************************************************)
(* The two steps of an organize_file call.  The calling thread's own       *)
(* position is left to the caller.                                         *)
(***************************************************************************)
OrganizeStep(r) ==
    /\ dirs' = r.dirs
    /\ UNCHANGED <<files, clock, config, nextId, moves, lost, call>>

\* a move inside the watched directory is a rename the Observer reports
\* (Handler.on_moved)
RenameSeen(dest) == Watching /\ dest[1] = Root

\* how often the model lets one file be moved
MaxMoves == 2

MoveStep(name, dest, move_ok) ==
    IF MoveFails(name, dest, move_ok)
    THEN UNCHANGED <<files, dirs, clock, config, nextId, moves, lost, call>>
    ELSE /\ moves[FileAt(Root, name).id] < MaxMoves
         /\ files' = Moved(name, dest)
         /\ moves' = [moves EXCEPT ![FileAt(Root, name).id] = @ + 1]
         /\ lost' = lost \cup Overwritten(name, dest)
         /\ UNCHANGED <<dirs, clock, config, nextId, call>>

(***************************************************************************)
(* Scan Driver: scan_existing, as main()'s first sweep and as the body of  *)
(* _watch_with_polling's loop.                                             *)
(***************************************************************************)
\* config.downloads_dir.iterdir()
Listing == {f.name : f \in {g \in files : g.dir = Root}} \cup {FolderAsName(d) : d \in dirs}

ScanStart ==
    /\ main.pc = "scan"
    /\ main' = [main EXCEPT !.pc = "item", !.todo = Listing]
    /\ UNCHANGED <<files, dirs, clock, config, tasks, nextId, moves, lost, call>>

\* an item that is no regular file (any more): line 157
ScanSkipItem(n) ==
    /\ main.pc = "item" /\ n \in main.todo
    /\ ~IsFile(Root, n)
    /\ main' = [main EXCEPT !.todo = @ \ {n}]
    /\ UNCHANGED <<files, dirs, clock, config, tasks, nextId, moves, lost, call>>

\* an exception of organize_file leaves scan_existing, the polling loop and
\* main(): the process ends
ScanItem(n, mkdir_ok) ==
    /\ main.pc = "item" /\ n \in main.todo
    /\ IsFile(Root, n)
    /\ LET r == organize_file(n, mkdir_ok)
       IN  /\ OrganizeStep(r)
           /\ main' = CASE r.kind = "move" ->
                             [main EXCEPT !.pc = "move", !.todo = @ \ {n},
                                          !.name = n, !.dest = r.ret]
                        [] r.kind = "raised" ->
                             [main EXCEPT !.pc = "crashed", !.todo = {}]
                        [] OTHER -> [main EXCEPT !.todo = @ \ {n}]
    /\ UNCHANGED tasks

ScanMove(move_ok) ==
    /\ main.pc = "move"
    /\ MoveStep(main.name, main.dest, move_ok)
    /\ main' = [main EXCEPT !.pc = "item", !.name = None, !.dest = None]
    /\ UNCHANGED tasks

\* the sweep is over: main() goes on to the Observer, or the polling loop
\* sleeps and sweeps again
ScanDone ==
    /\ main.pc = "item" /\ main.todo = {}
    /\ main' = [main EXCEPT !.pc = IF main.feed = "native" THEN "watching" ELSE "scan"]
    /\ UNCHANGED <<files, dirs, clock, config, tasks, nextId, moves, lost, call>>

(***************************************************************************)
(* Change Feed, native: worker() of queue_organize.                        *)
(***************************************************************************)
WorkerCheck(t) ==
    /\ Running
    /\ tasks[t].pc = "check"
    /\ LET name == tasks[t].name
       IN  tasks' = [tasks EXCEPT ![t] =
              IF ~IsFile(Root, name)
              THEN [@ EXCEPT !.pc = "done", !.vanished = TRUE]
              ELSE IF Age(name) < config.min_age_seconds
              THEN [@ EXCEPT !.pc = "sleep", !.attempt = @ + 1,
                             !.wake = clock + (config.min_age_seconds - Age(name))]
              ELSE [@ EXCEPT !.pc = "organize"]]
    /\ UNCHANGED <<files, dirs, clock, config, main, nextId, moves, lost, call>>

\* time.sleep is over; continue: the next round of the loop, if there is one
WorkerWake(t) ==
    /\ Running
    /\ tasks[t].pc = "sleep"
    /\ clock >= tasks[t].wake
    /\ tasks' = [tasks EXCEPT ![t] =
          [@ EXCEPT !.pc = IF tasks[t].attempt >= attempts THEN "done" ELSE "check",
                    !.wake = 0]]
    /\ UNCHANGED <<files, dirs, clock, config, main, nextId, moves, lost, call>>

\* an exception of organize_file ends the worker thread
WorkerOrganize(t, mkdir_ok) ==
    /\ Running
    /\ tasks[t].pc = "organize"
    /\ LET r == organize_file(tasks[t].name, mkdir_ok)
       IN  /\ OrganizeStep(r)
           /\ tasks' = [tasks EXCEPT ![t] =
                 CASE r.kind = "move" -> [@ EXCEPT !.pc = "move", !.dest = r.ret,
                                                   !.invoked = TRUE]
                   [] r.kind = "raised" -> [@ EXCEPT !.pc = "raised", !.invoked = TRUE]
                   [] OTHER -> [@ EXCEPT !.pc = "done", !.invoked = TRUE]]
    /\ UNCHANGED main

WorkerMove(t, move_ok) ==
    /\ Running
    /\ tasks[t].pc = "move"
    /\ LET name == tasks[t].name
           dest == tasks[t].dest
           seen == ~MoveFails(name, dest, move_ok) /\ RenameSeen(dest)
           ended == [tasks EXCEPT ![t] = [@ EXCEPT !.pc = "done", !.dest = None]]
       IN  /\ seen => FreeSlots # {}
           /\ MoveStep(name, dest, move_ok)
           /\ tasks' = IF seen THEN Spawned(ended, dest[2]) ELSE ended
    /\ UNCHANGED main

Scan ==
    \/ ScanStart
    \/ \E n \in main.todo : ScanSkipItem(n)
    \/ \E n \in main.todo, ok \in BOOLEAN : ScanItem(n, ok)
    \/ \E ok \in BOOLEAN : ScanMove(ok)
    \/ ScanDone

Workers ==
    \/ \E t \in DOMAIN tasks : WorkerCheck(t)
    \/ \E t \in DOMAIN tasks : WorkerWake(t)
    \/ \E t \in DOMAIN tasks, ok \in BOOLEAN : WorkerOrganize(t, ok)
    \/ \E t \in DOMAIN tasks, ok \in BOOLEAN : WorkerMove(t, ok)

(***************************************************************************)
(* Spec: every configuration, either change feed.                          *)
(***************************************************************************)
MaxFiles == 1
MaxClock == 1
MaxTasks == 1

\* the names under which other programs put files into the watched directory
EnvNames == {Mystery, Secret, DSStore, Partial}

Configs ==
    [dry_run : BOOLEAN, ignore_hidden : BOOLEAN,
     min_age_seconds : {0, 1}, other_folder : {"Other", "."}]

Init == InitOver(Configs, {"native", "polling"}, {{}}, MaxTasks, MaxFiles)

Next ==
    \/ \E n \in EnvNames : EnvCreate(n)
    \/ \E n \in EnvNames : EnvTouch(n)
    \/ \E n \in EnvNames : EnvDelete(n)
    \/ Tick(MaxClock)
    \/ Scan
    \/ Workers

Spec == Init /\ [][Next]_vars

(***************************************************************************)
(* SpecSettle: the native change feed with one file that another program   *)
(* keeps writing to, under min_age_seconds = 1.                            *)
(***************************************************************************)
SettleFiles == 1
SettleTasks == 1
SettleClock == 3

SettleConfig ==
    [dry_run |-> FALSE, ignore_hidden |-> TRUE, min_age_seconds |-> 1,
     other_folder |-> "Other"]

SettleInit == InitOver({SettleConfig}, {"native"}, {{}}, SettleTasks, SettleFiles)

SettleNext ==
    \/ EnvCreate(Report)
    \/ EnvTouch(Report)
    \/ EnvDelete(Report)
    \/ Tick(SettleClock)
    \/ Scan
    \/ Workers

SpecSettle == SettleInit /\ [][SettleNext]_vars

(***************************************************************************)
(* SpecRace: the native change feed with two workers, and a category       *)
(* folder that holds report.pdf from a previous run.                       *)
(***************************************************************************)
RaceFiles == 3
RaceTasks == 2
RaceClock == 1

\* what a previous run left in a category folder
Previous == { {[dir |-> "Documents", name |-> Report, id |-> 0, mtime |-> 0]} }

RaceInit == InitOver({SettleConfig}, {"native"}, Previous, RaceTasks, RaceFiles)

RaceNext ==
    \/ \E n \in {Report, Report1} : EnvCreate(n)
    \/ \E n \in {Report, Report1} : EnvTouch(n)
    \/ \E n \in {Report, Report1} : EnvDelete(n)
    \/ Tick(RaceClock)
    \/ Scan
    \/ Workers

SpecRace == RaceInit /\ [][RaceNext]_vars

(***************************************************************************)
(* The claims about the running program.                                   *)
(***************************************************************************)
\* a step of the program itself, not of its environment
ProgramStep == Scan \/ Workers

\* a thread calls organize_file on the file name n (up to the move)
OrganizeCall(n, mkdir_ok) ==
    \/ ScanItem(n, mkdir_ok)
    \/ \E t \in DOMAIN tasks : tasks[t].name = n /\ WorkerOrganize(t, mkdir_ok)

\* a thread, inside organize_file on n, calls shutil.move to dest
MoveCall(n, dest, move_ok) ==
    \/ main.pc = "move" /\ main.name = n /\ main.dest = dest /\ ScanMove(move_ok)
    \/ \E t \in DOMAIN tasks :
          tasks[t].pc = "move" /\ tasks[t].name = n /\ tasks[t].dest = dest
          /\ WorkerMove(t, move_ok)

\* C1: in dry-run mode no step of the program changes the files or the
\* directories of the filesystem.
C1_DryRunTouchesNothing ==
    [][(config.dry_run /\ ProgramStep) => (files' = files /\ dirs' = dirs)]_vars

\* C4: organize_file never raises: neither the main thread (scan, polling
\* loop) nor a worker is ever ended by an exception of it.
C4_MoverNeverRaises ==
    /\ main.pc # "crashed"
    /\ \A t \in DOMAIN tasks : tasks[t].pc # "raised"

\* C5: a worker that ended without calling organize_file found the file gone.
C5_MoverInvokedUnlessVanished ==
    \A t \in DOMAIN tasks :
        (tasks[t].pc = "done" /\ ~tasks[t].invoked) => tasks[t].vanished

\* C9: no move of organize_file replaces a file that is at its destination.
C9_NoOverwrite == lost = {}

\* C10: organize_file moves each file at most once.
C10_MovedAtMostOnce == \A i \in DOMAIN moves : moves[i] <= 1

\* the files of the watched directory
RootFiles == {f \in files : f.dir = Root}

\* modified less than min_age_seconds ago
Young(n) == IsFile(Root, n) /\ clock - FileAt(Root, n).mtime < config.min_age_seconds

\* the rules of the Settling Filter other than the age: the skip set, the
\* hidden-file policy, the transient extensions
OtherRulesPass(n) ==
    /\ n \notin SKIP_NAMES
    /\ ~(config.ignore_hidden /\ StartsWithDot(n))
    /\ Lower(suffix(n)) \notin TRANSIENT_EXTENSIONS

\* shutil.move, let by the operating system, carries the file f to dest
MoveCarriesOut(f) ==
    \A dest \in ({main.dest} \cup {tasks[t].dest : t \in DOMAIN tasks}) \ {None} :
        (MoveCall(f.name, dest, TRUE) /\ IsDir(dest[1]))
        => /\ \E g \in files' : g.dir = dest[1] /\ g.name = dest[2] /\ g.id = f.id
           /\ \A g \in files' : ~(g.dir = Root /\ g.name = f.name)

\* C6: an organize_file call on a file modified less than min_age_seconds
\* ago returns nothing and changes nothing; a call on a file that the other
\* rules let pass and that was modified min_age_seconds ago or earlier does
\* not skip it: it goes on to the move (in dry-run mode, to the report), and
\* the move carries the file to the destination.
C6_SettlingByAge ==
    [][\A f \in RootFiles :
          /\ \A ok \in BOOLEAN :
                OrganizeCall(f.name, ok) =>
                   LET r == organize_file(f.name, ok)
                   IN  /\ Young(f.name) =>
                            (r.kind = "skipped" /\ r.ret = None
                               /\ files' = files /\ dirs' = dirs)
                       /\ (~Young(f.name) /\ OtherRulesPass(f.name)) =>
                            /\ r.kind \in {"move", "dry", "raised"}
                            /\ r.kind = "dry" => config.dry_run
                            /\ r.kind = "raised" => ~ok
          /\ MoveCarriesOut(f)]_vars

\* a file moved by a polling sweep exactly min_age_seconds = 1 after its
\* last modification
C6_Witness ==
    /\ main.feed = "polling" /\ config.min_age_seconds = 1
    /\ \E f \in files :
          /\ f.name = Mystery /\ f.dir = "Other"
          /\ moves[f.id] = 1 /\ clock - f.mtime = 1

\* C7: with ignore_hidden, no step of the program moves, renames or alters
\* a file whose name starts with '.'; without it, an organize_file call on
\* such a file is decided by the other rules alone: a settled one that is
\* neither in the skip set nor transient goes on to the move, .secret.pdf
\* to Documents, and the move carries it there.
C7_HiddenFilePolicy ==
    [][/\ (config.ignore_hidden /\ ProgramStep) =>
             \A f \in files : StartsWithDot(f.name) => f \in files'
       /\ ~config.ignore_hidden =>
             \A f \in {g \in RootFiles : StartsWithDot(g.name)} :
                /\ \A ok \in BOOLEAN :
                      (OrganizeCall(f.name, ok) /\ ~Young(f.name)
                          /\ f.name \notin SKIP_NAMES
                          /\ Lower(suffix(f.name)) \notin TRANSIENT_EXTENSIONS) =>
                         LET r == organize_file(f.name, ok)
                         IN  /\ r.kind \in {"move", "dry", "raised"}
                             /\ r.kind = "raised" => ~ok
                             /\ (f.name = Secret /\ r.ret # None) => r.ret[1] = "Documents"
                /\ MoveCarriesOut(f)]_vars

\* with ignore_hidden, a worker has called organize_file on the settled
\* .secret.pdf, and the file is where it was
C7_Witness ==
    /\ config.ignore_hidden
    /\ \E t \in DOMAIN tasks :
          /\ tasks[t].pc = "done" /\ tasks[t].invoked /\ tasks[t].name = Secret
    /\ \E f \in RootFiles :
          f.name = Secret /\ moves[f.id] = 0 /\ clock - f.mtime >= config.min_age_seconds

=============================================================================
